---- MODULE Spec2Model ----
(***************************************************************************)
(* go-pipe: a Pipe holds an ordered slice of functions guarded by a mutex.  *)
(* New builds it, Add appends under the lock, Execute runs the functions in *)
(* order under the lock, feeding each one the previous one's outputs.       *)
(*                                                                         *)
(* Callers are goroutines (Procs).  Execute is modelled step by step: the   *)
(* Lock, one step per argument preparation + reflect.Call entry, one step   *)
(* per stage return + output scan, and the final return (with the deferred  *)
(* Unlock).  Spec is one caller with every input; SpecConc is two callers   *)
(* sharing the pipe, with a narrower choice of inputs; SpecLive is SpecConc *)
(* under fair scheduling; SpecStuck is two callers and pipes holding a      *)
(* function that never returns or one that calls Add on its own pipe.       *)
(***************************************************************************)
EXTENDS Integers, Sequences, FiniteSets, TLC

\* ------------------------------------------------------------------ bounds
MaxNew == 2        \* most candidates handed to one New call
MaxFuncs == 3      \* Add is not called once the pipe holds this many stages
MaxOps == 2        \* Add/Execute calls made by one goroutine

Procs == {"g1", "g2"}
NoOne == "unlocked"

\* ------------------------------------------------------------------ values
\* An interface{} value: its dynamic type and a payload.  Nil is the nil
\* interface.  float64 payloads are in tenths (30 is 3.0, 32 is 3.2);
\* strings and byte slices: 0 is "even", 1 is "odd"; errors carry a code.
Nil == [t |-> "nil", v |-> 0]
I(n) == [t |-> "int", v |-> n]
F(n) == [t |-> "float64", v |-> n]
S(n) == [t |-> "string", v |-> n]
B(n) == [t |-> "[]uint8", v |-> n]
E(n) == [t |-> "*errors.errorString", v |-> n]

\* errors.New / fmt.Errorf values built by the package itself
ErrNotFunc == E(103)
ErrArity == E(101)
ErrArgType == E(102)
\* errors built by the stages
ErrDivZero == E(1)
ErrLow == E(2)
ErrOdd == E(3)

\* The argument lists handed to Execute.
ArgLists ==
  { <<I(10), F(30)>>, <<I(10)>>, <<I(10), F(30), I(1)>>, <<F(32)>>,
    <<I(10), F(0)>>, << >>, <<I(3)>>, <<I(3), I(10)>>,
    <<F(30), F(30), I(1)>>, <<Nil, F(30), I(1)>>, <<I(10), Nil>>,
    <<Nil>>, <<ErrLow, I(1)>> }

\* ------------------------------------------------------------------ stages
\* The candidates handed to New and Add: five functions, an int and nil.
Stages == {"div", "parity", "toBytes", "audit", "report"}
NotFunc == "42"
NilCand == "nil"
Candidates == Stages \cup {NotFunc, NilCand}
\* More functions a caller may register: "hang" never returns (for {});
\* "reenter" is func(int) error { return p.Add(g) } on the pipe that runs
\* it, g a function; "addNotFunc" is the same with p.Add(42).
StuckStages == {"hang", "reenter"}
ExtraStages == StuckStages \cup {"addNotFunc"}

\* reflect.TypeOf(f).Kind(); reflect.TypeOf(nil) is the nil Type, and
\* calling Kind on it is a nil dereference.
KindOf(f) ==
  IF f = NilCand THEN "panic"
  ELSE IF f \in Stages \cup ExtraStages THEN "func"
  ELSE "int"

\* Signatures: declared parameter types and declared result types.
Sig(fn) ==
  CASE fn = "div"     -> [in |-> <<"int", "float64">>, out |-> <<"int", "error">>]
    [] fn = "parity"  -> [in |-> <<"int">>, out |-> <<"string">>]
    [] fn = "toBytes" -> [in |-> <<"string">>, out |-> <<"[]uint8">>]
    [] fn = "audit"   -> [in |-> <<"int">>, out |-> <<"error", "int", "error">>]
    [] fn = "report"  -> [in |-> <<"error">>, out |-> <<"string">>]
    [] fn = "hang"    -> [in |-> <<"int">>, out |-> <<"int">>]
    [] fn = "reenter" -> [in |-> <<"int">>, out |-> <<"error">>]
    [] fn = "addNotFunc" -> [in |-> <<"int">>, out |-> <<"error">>]

NumIn(fn) == Len(Sig(fn).in)

\* What each function returns, one value per declared result.
Body(fn, a) ==
  CASE fn = "div" ->
         IF a[2].v = 0 THEN <<I(0), ErrDivZero>>
         ELSE <<I(a[1].v \div (a[2].v \div 10)), Nil>>
    [] fn = "parity" ->
         IF a[1].v % 2 = 0 THEN <<S(0)>> ELSE <<S(1)>>
    [] fn = "toBytes" -> <<B(a[1].v)>>
    [] fn = "audit" ->
         << IF a[1].v < 5 THEN ErrLow ELSE Nil,
            a[1],
            IF a[1].v % 2 = 1 THEN ErrOdd ELSE Nil >>
    [] fn = "report" -> <<S(a[1].v % 2)>>
    [] fn = "reenter" -> <<Nil>>   \* what its p.Add returns, if it returns
    [] fn = "addNotFunc" -> <<ErrNotFunc>>   \* its p.Add fails the Kind check

\* ----------------------------------------------------------------- reflect
\* reflect.Value: valid flag, static type, held value.
Invalid == [valid |-> FALSE, typ |-> "invalid", val |-> Nil]
ValueOf(x) ==
  IF x = Nil THEN Invalid ELSE [valid |-> TRUE, typ |-> x.t, val |-> x]
ZeroValue(T) ==
  [valid |-> TRUE, typ |-> T,
   val |-> IF T = "error" THEN Nil ELSE [t |-> T, v |-> 0]]
Interface(rv) == rv.val
TypeOf(x) == x.t
AssignableTo(T, U) ==
  \/ T = U
  \/ U = "error" /\ T = "*errors.errorString"
  \/ U = "interface {}"
\* Type.Name(): unnamed types such as []uint8 have the empty name.
TypeName(T) == IF T = "[]uint8" THEN "" ELSE T

\* reflect.Value.Call: panics on a zero Value argument and on an argument
\* whose type is not assignable to the parameter's type; otherwise runs the
\* function and returns its results as Values of the declared result types.
CallPanics(fn, in) ==
  \E i \in 1..NumIn(fn) :
     \/ ~in[i].valid
     \/ ~AssignableTo(in[i].typ, Sig(fn).in[i])
Call(fn, in) ==
  LET res == Body(fn, [i \in 1..NumIn(fn) |-> in[i].val])
  IN [k \in 1..Len(Sig(fn).out) |->
        [valid |-> TRUE, typ |-> Sig(fn).out[k], val |-> res[k]]]

\* ----------------------------------------------------------------- Execute
\* in := make([]reflect.Value, numIn), filled from inputs or with zeros.
PrepareIn(fn, inputs) ==
  [j \in 1..NumIn(fn) |->
     IF j <= Len(inputs) THEN ValueOf(inputs[j])
     ELSE ZeroValue(Sig(fn).in[j])]

\* Variant: the nil test is missing (the nil Type then fails the lookup).
MatchesNoNilTest(inputs, in, i) ==
  AssignableTo(TypeOf(inputs[i]), TypeOf(Interface(in[i])))
\* The test of the surplus loop for position i.
Matches(inputs, in, i) ==
  /\ inputs[i] # Nil
  /\ AssignableTo(TypeOf(inputs[i]), TypeOf(Interface(in[i])))

\* Variant: the surplus loop reads the trailing inputs, not the leading ones.
NewInTail(fn, inputs, in) ==
  [i \in 1..NumIn(fn) |-> ValueOf(inputs[Len(inputs) - NumIn(fn) + i])]
\* The surplus loop: newIn and the count j of matching positions.
NewIn(fn, inputs, in) ==
  [i \in 1..NumIn(fn) |->
     IF Matches(inputs, in, i) THEN ValueOf(inputs[i]) ELSE Invalid]
MatchCount(fn, inputs, in) ==
  Cardinality({i \in 1..NumIn(fn) : Matches(inputs, in, i)})

\* Variant: the deficit test is missing, so the zero-filled in is used.
SelectArgsNoDeficit(fn, inputs) ==
  LET in == PrepareIn(fn, inputs)
  IN IF Len(inputs) > NumIn(fn) THEN
        IF MatchCount(fn, inputs, in) # NumIn(fn)
        THEN [kind |-> "argtype", in |-> << >>]
        ELSE [kind |-> "call", in |-> NewIn(fn, inputs, in)]
     ELSE [kind |-> "call", in |-> in]

\* Variant: the loop over the leading inputs also runs in the exact case.
SelectArgsCheckedExact(fn, inputs) ==
  LET in == PrepareIn(fn, inputs)
  IN IF Len(inputs) < NumIn(fn) THEN [kind |-> "arity", in |-> << >>]
     ELSE IF MatchCount(fn, inputs, in) # NumIn(fn)
     THEN [kind |-> "argtype", in |-> << >>]
     ELSE [kind |-> "call", in |-> NewIn(fn, inputs, in)]

\* The deficit / surplus / exact decision for one function.
SelectArgs(fn, inputs) ==
  LET in == PrepareIn(fn, inputs)
  IN IF Len(inputs) < NumIn(fn) THEN [kind |-> "arity", in |-> << >>]
     ELSE IF Len(inputs) > NumIn(fn) THEN
        IF MatchCount(fn, inputs, in) # NumIn(fn)
        THEN [kind |-> "argtype", in |-> << >>]
        ELSE [kind |-> "call", in |-> NewIn(fn, inputs, in)]
     ELSE [kind |-> "call", in |-> in]

\* Variant: a nil result of type error is not stored.
RECURSIVE StoreOutputsSkipNil(_, _, _)
StoreOutputsSkipNil(out, k, outputs) ==
  IF k > Len(out) THEN [failed |-> FALSE, err |-> Nil, outputs |-> outputs]
  ELSE LET o == out[k]
       IN IF TypeName(o.typ) = "error" /\ o.val = Nil
          THEN StoreOutputsSkipNil(out, k + 1, outputs)
          ELSE IF TypeName(o.typ) = "error"
          THEN [failed |-> TRUE, err |-> o.val,
                outputs |-> Append(outputs, Interface(o))]
          ELSE StoreOutputsSkipNil(out, k + 1, Append(outputs, Interface(o)))

\* Variant: only the last result is looked at for an error.
RECURSIVE StoreOutputsLastOnly(_, _, _)
StoreOutputsLastOnly(out, k, outputs) ==
  IF k > Len(out) THEN [failed |-> FALSE, err |-> Nil, outputs |-> outputs]
  ELSE LET o == out[k]
           appended == Append(outputs, Interface(o))
       IN IF k = Len(out) /\ TypeName(o.typ) = "error" /\ o.val # Nil
          THEN [failed |-> TRUE, err |-> o.val, outputs |-> appended]
          ELSE StoreOutputsLastOnly(out, k + 1, appended)

\* The loop over out: every valid result is appended to outputs; the first
\* result whose type is named "error" and that is not nil ends the run.
RECURSIVE StoreOutputs(_, _, _)
StoreOutputs(out, k, outputs) ==
  IF k > Len(out) THEN [failed |-> FALSE, err |-> Nil, outputs |-> outputs]
  ELSE LET o == out[k]
       IN IF o.valid
          THEN LET appended == Append(outputs, Interface(o))
               IN IF TypeName(o.typ) = "error" /\ o.val # Nil
                  THEN [failed |-> TRUE, err |-> o.val, outputs |-> appended]
                  ELSE StoreOutputs(out, k + 1, appended)
          ELSE StoreOutputs(out, k + 1, outputs)

\* --------------------------------------------------------------------- New
\* The loop of New over its candidates, building p.funcs.
RECURSIVE NewLoop(_, _, _)
NewLoop(cands, i, fs) ==
  IF i > Len(cands) THEN [kind |-> "ok", funcs |-> fs]
  ELSE IF KindOf(cands[i]) = "panic" THEN [kind |-> "panic", funcs |-> << >>]
  ELSE IF KindOf(cands[i]) # "func" THEN [kind |-> "notfunc", funcs |-> << >>]
  ELSE NewLoop(cands, i + 1, Append(fs, cands[i]))

CandLists == UNION {[1..n -> Candidates] : n \in 0..MaxNew}

\* The narrower inputs of the two-caller specification.
ConcCandLists == { << >>, <<"div">>, <<"div", "parity">>, <<"div", NotFunc>> }
ConcCandidates == {"toBytes", NotFunc}
ConcArgLists == { <<I(10), F(30)>>, <<I(10)>>, <<I(10), F(0)>> }

\* The inputs of the two callers under fair scheduling.
LiveCandLists == { <<"div", "parity">> }
LiveCandidates == {"toBytes", NotFunc}
LiveArgLists == { <<I(10), F(30)>>, <<I(10)>> }

\* The inputs of the specification with functions that do not return.
StuckCandLists ==
  { <<"div">>, <<"hang">>, <<"div", "hang">>, <<"reenter">>,
    <<"div", "reenter">>, <<"addNotFunc">> }
StuckArgLists == { <<I(10), F(30)>>, <<I(10)>> }
\* The function the re-entrant stage hands to its p.Add.
InnerCand == "toBytes"

\* ------------------------------------------------------------------- state
VARIABLES
  pipe,      \* "none" until New has returned a *Pipe, then "built"
  newRes,    \* what the last New call returned
  funcs,     \* p.funcs
  mux,       \* p.mux: the goroutine holding it, or NoOne
  pc,        \* where each goroutine is
  cand,      \* Add: the argument f
  args,      \* Execute: the arguments of the current (or last) call
  rng,       \* Execute: the slice the range loop iterates
  idx,       \* Execute: position of the loop in rng (1-based)
  inputs,    \* Execute: the local inputs
  callIn,    \* Execute: the Values handed to the function being called
  calls,     \* history: the invocations of the current (or last) run
  result,    \* what each goroutine's last call returned
  opsDone    \* calls each goroutine has completed

vars == <<pipe, newRes, funcs, mux, pc, cand, args, rng, idx, inputs,
          callIn, calls, result, opsDone>>

NoResult ==
  [op |-> "none", kind |-> "none", out |-> << >>, outNil |-> TRUE,
   err |-> Nil, at |-> 0, prev |-> "none"]

Init ==
  /\ pipe = "none"
  /\ newRes = [kind |-> "none", cands |-> << >>]
  /\ funcs = << >>
  /\ mux = NoOne
  /\ pc = [p \in Procs |-> "idle"]
  /\ cand = [p \in Procs |-> NilCand]
  /\ args = [p \in Procs |-> << >>]
  /\ rng = [p \in Procs |-> << >>]
  /\ idx = [p \in Procs |-> 0]
  /\ inputs = [p \in Procs |-> << >>]
  /\ callIn = [p \in Procs |-> << >>]
  /\ calls = [p \in Procs |-> << >>]
  /\ result = [p \in Procs |-> NoResult]
  /\ opsDone = [p \in Procs |-> 0]

\* New(funcs...): a pipe comes back only when every candidate is a function.
New(cands) ==
  /\ pipe = "none"
  /\ LET r == NewLoop(cands, 1, << >>)
     IN /\ newRes' = [kind |-> r.kind, cands |-> cands]
        /\ pipe' = IF r.kind = "ok" THEN "built" ELSE "none"
        /\ funcs' = r.funcs
  /\ UNCHANGED <<mux, pc, cand, args, rng, idx, inputs, callIn, calls,
                 result, opsDone>>

\* ------------------------------------------------------------ call returns
\* Variant: no waiting for the mutex.
CanLockAlways(p) == TRUE
\* Variant: a re-entrant mutex, free for the goroutine that holds it.
CanLockReentrant(p) == mux = NoOne \/ mux = p
\* p.mux.Lock() returns only once nobody holds the mutex.
CanLock(p) == mux = NoOne
\* Variant: the Unlock is not deferred and the return paths skip it.
UnlockForgotten(p) == p
\* The mutex after the deferred p.mux.Unlock().
Unlock(p) == NoOne
\* Variant: the slice is rebuilt from the new function alone.
ReplaceStages(fs, f) == <<f>>
\* Variant: the new function is put in front.
PrependStage(fs, f) == <<f>> \o fs
\* append(p.funcs, f)
AppendStage(fs, f) == Append(fs, f)
\* Variant: the loop walks p.funcs from the end.
LoopFnReversed(p) == rng[p][Len(rng[p]) + 1 - idx[p]]
\* The function the range loop of goroutine p is at.
LoopFn(p) == rng[p][idx[p]]

\* Variant: the loop starts from an empty inputs.
InitialInputsEmpty(a) == << >>
\* var inputs []interface{} = args
InitialInputs(a) == a

\* A call of goroutine p comes back with r; the Execute locals are dropped.
Finish(p, r) ==
  /\ result' = [result EXCEPT ![p] = [r EXCEPT !.prev = result[p].kind]]
  /\ pc' = [pc EXCEPT ![p] = "idle"]
  /\ opsDone' = [opsDone EXCEPT ![p] = @ + 1]
  /\ idx' = [idx EXCEPT ![p] = 0]
  /\ inputs' = [inputs EXCEPT ![p] = << >>]
  /\ callIn' = [callIn EXCEPT ![p] = << >>]

\* Execute's return statements: return nil, err and return inputs, err.
\* Variant: "return outputs, err".
ReturnErrPartial(kind, e, i, outputs) ==
  [op |-> "Execute", kind |-> kind, out |-> outputs, outNil |-> FALSE,
   err |-> e, at |-> i, prev |-> "none"]
\* outputs is the local slice at the return, which "return nil, err" drops.
ReturnErr(kind, e, i, outputs) ==
  [op |-> "Execute", kind |-> kind, out |-> << >>, outNil |-> TRUE,
   err |-> e, at |-> i, prev |-> "none"]
\* Variant: nil values are filtered out of what is returned.
ReturnOkDropNil(vals, isNil) ==
  [op |-> "Execute", kind |-> "ok",
   out |-> SelectSeq(vals, LAMBDA x : x # Nil), outNil |-> isNil,
   err |-> Nil, at |-> 0, prev |-> "none"]
ReturnOk(vals, isNil) ==
  [op |-> "Execute", kind |-> "ok", out |-> vals, outNil |-> isNil,
   err |-> Nil, at |-> 0, prev |-> "none"]
\* A panic unwinding out of Execute (the deferred Unlock still runs).
Panicked(op, i) ==
  [op |-> op, kind |-> "panic", out |-> << >>, outNil |-> TRUE,
   err |-> Nil, at |-> i, prev |-> "none"]
AddReturn(kind, e) ==
  [op |-> "Add", kind |-> kind, out |-> << >>, outNil |-> TRUE,
   err |-> e, at |-> 0, prev |-> "none"]

\* --------------------------------------------------------------------- Add
\* Add(f): the Kind check happens before the lock is asked for.
AddCall(p, f) ==
  /\ pipe = "built"
  /\ pc[p] = "idle"
  /\ opsDone[p] < MaxOps
  /\ Len(funcs) < MaxFuncs
  /\ cand' = [cand EXCEPT ![p] = f]
  /\ IF KindOf(f) = "panic" THEN Finish(p, Panicked("Add", 0))
     ELSE IF KindOf(f) # "func" THEN
        Finish(p, AddReturn("notfunc", ErrNotFunc))
     ELSE
        /\ pc' = [pc EXCEPT ![p] = "Add:Lock"]
        /\ UNCHANGED <<result, opsDone, idx, inputs, callIn>>
  /\ args' = [args EXCEPT ![p] = << >>]
  /\ rng' = [rng EXCEPT ![p] = << >>]
  /\ calls' = [calls EXCEPT ![p] = << >>]
  /\ UNCHANGED <<pipe, newRes, funcs, mux>>

\* p.mux.Lock() in Add.
AddLock(p) ==
  /\ pc[p] = "Add:Lock"
  /\ CanLock(p)
  /\ mux' = p
  /\ pc' = [pc EXCEPT ![p] = "Add:append"]
  /\ UNCHANGED <<pipe, newRes, funcs, cand, args, rng, idx, inputs, callIn,
                 calls, result, opsDone>>

\* p.funcs = append(p.funcs, f); return nil (and the deferred Unlock).
AddAppend(p) ==
  /\ pc[p] = "Add:append"
  /\ funcs' = AppendStage(funcs, cand[p])
  /\ mux' = Unlock(p)
  /\ Finish(p, AddReturn("ok", Nil))
  /\ UNCHANGED <<pipe, newRes, cand, args, rng, calls>>

\* ----------------------------------------------------------------- Execute
\* A goroutine calls Execute(args...).
ExecuteCall(p, a) ==
  /\ pipe = "built"
  /\ pc[p] = "idle"
  /\ opsDone[p] < MaxOps
  /\ pc' = [pc EXCEPT ![p] = "Execute:Lock"]
  /\ args' = [args EXCEPT ![p] = a]
  /\ rng' = [rng EXCEPT ![p] = << >>]
  /\ calls' = [calls EXCEPT ![p] = << >>]
  /\ UNCHANGED <<pipe, newRes, funcs, mux, cand, idx, inputs, callIn,
                 result, opsDone>>

\* p.mux.Lock(); inputs = args; the range expression p.funcs is read.
ExecuteLock(p) ==
  /\ pc[p] = "Execute:Lock"
  /\ CanLock(p)
  /\ mux' = p
  /\ inputs' = [inputs EXCEPT ![p] = InitialInputs(args[p])]
  /\ rng' = [rng EXCEPT ![p] = funcs]
  /\ idx' = [idx EXCEPT ![p] = 1]
  /\ pc' = [pc EXCEPT ![p] = "Execute:loop"]
  /\ UNCHANGED <<pipe, newRes, funcs, cand, args, callIn, calls, result,
                 opsDone>>

\* One loop iteration up to the entry of the function: the arguments are
\* reconciled, then reflect.Call checks them and starts the function.
ExecuteStage(p) ==
  /\ pc[p] = "Execute:loop"
  /\ idx[p] <= Len(rng[p])
  /\ LET fn == LoopFn(p)
         sel == SelectArgs(fn, inputs[p])
     IN IF sel.kind = "arity" THEN
           /\ Finish(p, ReturnErr("arity", ErrArity, idx[p], << >>))
           /\ mux' = Unlock(p)
           /\ UNCHANGED calls
        ELSE IF sel.kind = "argtype" THEN
           /\ Finish(p, ReturnErr("argtype", ErrArgType, idx[p], << >>))
           /\ mux' = Unlock(p)
           /\ UNCHANGED calls
        ELSE IF CallPanics(fn, sel.in) THEN
           /\ Finish(p, Panicked("Execute", idx[p]))
           /\ mux' = Unlock(p)
           /\ UNCHANGED calls
        ELSE
           /\ pc' = [pc EXCEPT ![p] = "Execute:call"]
           /\ callIn' = [callIn EXCEPT ![p] = sel.in]
           /\ calls' = [calls EXCEPT ![p] =
                 Append(@, [i |-> idx[p], fn |-> fn, cur |-> inputs[p],
                            in |-> [k \in 1..Len(sel.in) |-> sel.in[k].val]])]
           /\ UNCHANGED <<mux, result, opsDone, idx, inputs>>
  /\ UNCHANGED <<pipe, newRes, funcs, cand, args, rng>>

\* The function being run calls p.Add(InnerCand): the Kind check passes and
\* the goroutine is now in p.mux.Lock(), inside the stage, inside Execute.
StageCallsAdd(p) ==
  /\ pc[p] = "Execute:call"
  /\ LoopFn(p) = "reenter"
  /\ pc' = [pc EXCEPT ![p] = "Stage:Lock"]
  /\ cand' = [cand EXCEPT ![p] = InnerCand]
  /\ UNCHANGED <<pipe, newRes, funcs, mux, args, rng, idx, inputs, callIn,
                 calls, result, opsDone>>

\* When the function being run can return: never for the one that loops;
\* for the one blocked in the Lock of its inner Add, once that Lock is
\* granted (the inner Add then appends and returns nil).
StageDone(p) ==
  \/ pc[p] = "Execute:call" /\ LoopFn(p) \notin StuckStages
  \/ pc[p] = "Stage:Lock" /\ CanLock(p)

\* The function returns; its results are stored, and a non-nil error ends
\* the run, else they become the inputs of the next iteration.
StageReturn(p) ==
  /\ StageDone(p)
  /\ funcs' = IF pc[p] = "Stage:Lock" THEN AppendStage(funcs, cand[p])
              ELSE funcs
  /\ LET fn == LoopFn(p)
         st == StoreOutputs(Call(fn, callIn[p]), 1, << >>)
     IN IF st.failed THEN
           /\ Finish(p, ReturnErr("stage", st.err, idx[p], st.outputs))
           /\ mux' = Unlock(p)
        ELSE
           /\ inputs' = [inputs EXCEPT ![p] = st.outputs]
           /\ idx' = [idx EXCEPT ![p] = @ + 1]
           /\ callIn' = [callIn EXCEPT ![p] = << >>]
           /\ pc' = [pc EXCEPT ![p] = "Execute:loop"]
           /\ UNCHANGED <<mux, result, opsDone>>
  /\ UNCHANGED <<pipe, newRes, cand, args, rng, calls>>

\* The loop is over: return inputs, err (err is nil here).
ExecuteReturn(p) ==
  /\ pc[p] = "Execute:loop"
  /\ idx[p] > Len(rng[p])
  /\ Finish(p, ReturnOk(inputs[p],
                        Len(rng[p]) = 0 /\ Len(args[p]) = 0))
  /\ mux' = Unlock(p)
  /\ UNCHANGED <<pipe, newRes, funcs, cand, args, rng, calls>>

\* The steps of the callers in P, with inputs drawn from CL, AC and AL.
Step(P, CL, AC, AL) ==
  \/ \E cands \in CL : New(cands)
  \/ \E p \in P, f \in AC : AddCall(p, f)
  \/ \E p \in P : AddLock(p)
  \/ \E p \in P : AddAppend(p)
  \/ \E p \in P, a \in AL : ExecuteCall(p, a)
  \/ \E p \in P : ExecuteLock(p)
  \/ \E p \in P : ExecuteStage(p)
  \/ \E p \in P : StageReturn(p)
  \/ \E p \in P : ExecuteReturn(p)

\* One caller, every input.
Next == Step({"g1"}, CandLists, Candidates, ArgLists)
Spec == Init /\ [][Next]_vars

\* Two callers sharing the pipe.
NextConc == Step(Procs, ConcCandLists, ConcCandidates, ConcArgLists)
SpecConc == Init /\ [][NextConc]_vars

\* The same under fair scheduling: a goroutine that can take a step of its
\* call takes it, and sync.Mutex hands the lock to every waiter in the end
\* (a waiter that keeps losing is served first: starvation mode).
Fairness ==
  \A p \in Procs :
    /\ WF_vars(AddAppend(p) \/ ExecuteStage(p) \/ StageReturn(p)
                \/ ExecuteReturn(p))
    /\ SF_vars(AddLock(p))
    /\ SF_vars(ExecuteLock(p))
NextLive == Step(Procs, LiveCandLists, LiveCandidates, LiveArgLists)
SpecLive == Init /\ [][NextLive]_vars /\ Fairness

\* Two callers and pipes with a function that does not return.
NextStuck ==
  \/ Step(Procs, StuckCandLists, ConcCandidates, StuckArgLists)
  \/ \E p \in Procs : StageCallsAdd(p)
SpecStuck == Init /\ [][NextStuck]_vars

\* ================================================================== claims
\* What the invocation c (an entry of calls) returned, slot by slot, and the
\* result slots of declared type error that came back non-nil.
Returned(c) == Body(c.fn, c.in)
ErrSlots(c) ==
  {k \in 1..Len(Sig(c.fn).out) :
     TypeName(Sig(c.fn).out[k]) = "error" /\ Returned(c)[k] # Nil}
MinOf(K) == CHOOSE k \in K : \A j \in K : k <= j
\* Goroutine p's last call was an Execute and it has come back.
Done(p) == pc[p] = "idle" /\ result[p].op = "Execute"
FailKinds == {"arity", "argtype", "stage"}

\* C1 as stated: once an Execute has come back, for every invoked stage and
\* every error-typed result slot of it that was non-nil, the error Execute
\* returned is that slot's value, and that stage is the last one invoked.
C1_AnySlotReturned ==
  \A p \in Procs : Done(p) =>
    \A n \in 1..Len(calls[p]) : \A k \in ErrSlots(calls[p][n]) :
       /\ result[p].err = Returned(calls[p][n])[k]
       /\ n = Len(calls[p])

\* C1 amended: a stage that returned a non-nil error-typed value is the last
\* stage invoked in its run, and Execute returns the non-nil error-typed
\* value at the lowest result position of that stage.
C1_FirstSlotReturned ==
  \A p \in Procs :
    /\ \A n \in 1..Len(calls[p]) - 1 : ErrSlots(calls[p][n]) = {}
    /\ Done(p) =>
         \A n \in 1..Len(calls[p]) : ErrSlots(calls[p][n]) # {} =>
            /\ n = Len(calls[p])
            /\ result[p].kind = "stage"
            /\ result[p].at = calls[p][n].i
            /\ result[p].err = Returned(calls[p][n])[MinOf(ErrSlots(calls[p][n]))]

\* A run ended by an error in a result slot that is not the last one, with
\* a later stage registered and never invoked.
C1_Witness ==
  \E p \in Procs :
    /\ Done(p) /\ result[p].kind = "stage"
    /\ Len(calls[p]) < Len(rng[p])
    /\ LET c == calls[p][Len(calls[p])]
       IN MinOf(ErrSlots(c)) < Len(Sig(c.fn).out)

IsPrefix(s, t) == Len(s) <= Len(t) /\ \A i \in 1..Len(s) : s[i] = t[i]

\* C2: the invocations of a run are the functions at positions 1, 2, 3, ...
\* of the registered sequence, one each; the first sees the arguments of
\* Execute, every later one sees what the one before it returned, which held
\* no non-nil error; the values handed over are the leading current values.
C2_OrderPreserved ==
  \A p \in Procs :
    /\ IsPrefix(rng[p], funcs)
    /\ \A n \in 1..Len(calls[p]) :
         LET c == calls[p][n]
         IN /\ c.i = n
            /\ n <= Len(rng[p])
            /\ c.fn = rng[p][n]
            /\ c.cur = IF n = 1 THEN args[p] ELSE Returned(calls[p][n - 1])
            /\ n > 1 => ErrSlots(calls[p][n - 1]) = {}
            /\ \A k \in 1..Len(c.in) : c.in[k] = c.cur[k]

\* The third stage of a run is being invoked.
C2_Witness ==
  \E p \in Procs :
    /\ pc[p] = "Execute:call" /\ Len(calls[p]) >= 3
    /\ calls[p][2].fn # calls[p][3].fn

\* A stage is reached with fewer current values than it has parameters.
Deficit(p) ==
  /\ pc[p] = "Execute:loop"
  /\ idx[p] <= Len(rng[p])
  /\ Len(inputs[p]) < NumIn(rng[p][idx[p]])

\* C3: from a deficit the caller's next step is the return of the arity
\* error with nil outputs, and no invocation is added to the run.
C3_ArityDeficit ==
  [][\A p \in Procs :
       Deficit(p) /\ pc'[p] # pc[p] =>
          /\ pc'[p] = "idle"
          /\ result'[p].kind = "arity"
          /\ result'[p].err = ErrArity
          /\ result'[p].out = << >> /\ result'[p].outNil
          /\ result'[p].at = idx[p]
          /\ calls'[p] = calls[p]]_vars

\* An arity error at a stage after the first: the stages before it ran, the
\* under-supplied one did not.
C3_Witness ==
  \E p \in Procs :
    /\ Done(p) /\ result[p].kind = "arity"
    /\ result[p].at >= 2
    /\ Len(calls[p]) = result[p].at - 1

\* A non-nil value whose dynamic type is assignable to the parameter type T.
Compatible(x, T) == x # Nil /\ AssignableTo(TypeOf(x), T)

\* A stage is reached with more current values than it has parameters.
Surplus(p) ==
  /\ pc[p] = "Execute:loop"
  /\ idx[p] <= Len(rng[p])
  /\ Len(inputs[p]) > NumIn(rng[p][idx[p]])
LeadingCompatible(p) ==
  \A i \in 1..NumIn(rng[p][idx[p]]) :
     Compatible(inputs[p][i], Sig(rng[p][idx[p]]).in[i])

\* C4: from a surplus whose leading values fit the parameters, the caller's
\* next step invokes the stage with exactly the leading values, in order;
\* and when an invoked stage returns without failing, the next current
\* values are that stage's results and nothing else.
C4_SurplusTruncation ==
  [][\A p \in Procs :
       /\ Surplus(p) /\ LeadingCompatible(p) /\ pc'[p] # pc[p] =>
            /\ pc'[p] = "Execute:call"
            /\ Len(callIn'[p]) = NumIn(rng[p][idx[p]])
            /\ \A i \in 1..Len(callIn'[p]) : callIn'[p][i].val = inputs[p][i]
            /\ Len(calls'[p]) = Len(calls[p]) + 1
            /\ calls'[p][Len(calls'[p])].fn = rng[p][idx[p]]
       /\ pc[p] = "Execute:call" /\ pc'[p] = "Execute:loop" =>
            inputs'[p] = Returned(calls[p][Len(calls[p])])]_vars

\* A run that succeeded although Execute was given more arguments than its
\* first stage takes, and more than one parameter was filled.
C4_Witness ==
  \E p \in Procs :
    /\ Done(p) /\ result[p].kind = "ok"
    /\ Len(calls[p]) >= 2
    /\ Len(calls[p][1].in) >= 2
    /\ Len(calls[p][1].cur) > Len(calls[p][1].in)

\* C5 as stated: from a surplus in which some leading value does not fit
\* its parameter, the caller's next step is the return of the argument-type
\* error, and the stage is not invoked.
C5_ArgumentTypeError ==
  [][\A p \in Procs :
       Surplus(p) /\ ~LeadingCompatible(p) /\ pc'[p] # pc[p] =>
          /\ pc'[p] = "idle"
          /\ result'[p].kind = "argtype"
          /\ result'[p].err = ErrArgType
          /\ calls'[p] = calls[p]]_vars

\* C6: an Execute that came back with a non-nil error came back with nil
\* outputs.
C6_NoPartialOutputs ==
  \A p \in Procs :
    result[p].op = "Execute" /\ result[p].err # Nil =>
       result[p].out = << >> /\ result[p].outNil

\* A stage failed after an earlier stage of the run had produced outputs.
C6_Witness ==
  \E p \in Procs :
    /\ Done(p) /\ result[p].kind = "stage" /\ result[p].err # Nil
    /\ Len(calls[p]) >= 2

InExecute(p) == pc[p] \in {"Execute:loop", "Execute:call", "Stage:Lock"}
InCritical(p) == InExecute(p) \/ pc[p] = "Add:append"

\* C7: at most one goroutine is between its Lock and its return, and it is
\* the holder of the mutex.
C7_MutualExclusion ==
  \A p \in Procs :
    InCritical(p) =>
       /\ mux = p
       /\ \A q \in Procs : InCritical(q) => q = p

\* One goroutine is inside its second stage while the other waits for the
\* mutex.
C7_Witness ==
  \E p, q \in Procs :
    /\ p # q
    /\ pc[p] = "Execute:call" /\ idx[p] >= 2
    /\ pc[q] \in {"Add:Lock", "Execute:Lock"}

\* C8: Add's append puts f at the end and is the only way the sequence
\* changes once the pipe is built; an Execute iterates the sequence as it is
\* when it gets the mutex, and the sequence stays equal to it for the whole
\* run.
C8_AppendVisibility ==
  [][/\ \A p \in Procs :
          pc[p] = "Add:append" /\ pc'[p] = "idle" =>
             funcs' = Append(funcs, cand[p])
     /\ pipe = "built" /\ funcs' # funcs =>
          \E p \in Procs : pc[p] = "Add:append" /\ pc'[p] = "idle"
     /\ \A p \in Procs :
          pc'[p] \in {"Execute:loop", "Execute:call"} => rng'[p] = funcs']_vars

\* An Execute started after another goroutine's Add came back is invoking
\* the added function, the last of the sequence.
C8_Witness ==
  \E p, q \in Procs :
    /\ p # q
    /\ pc[q] = "idle" /\ result[q].op = "Add" /\ result[q].kind = "ok"
    /\ pc[p] = "Execute:call" /\ idx[p] = Len(rng[p]) /\ idx[p] >= 2
    /\ rng[p][idx[p]] = cand[q]

Callable(f) == f \in Stages \cup ExtraStages

C9_State ==
  /\ (newRes.kind # "none"
      /\ \E i \in 1..Len(newRes.cands) : ~Callable(newRes.cands[i])) =>
        newRes.kind = "notfunc" /\ pipe = "none"
  /\ \A p \in Procs :
       pc[p] = "idle" /\ result[p].op = "Add" /\ ~Callable(cand[p]) =>
          result[p].kind = "notfunc" /\ result[p].err = ErrNotFunc
  /\ \A i \in 1..Len(funcs) : Callable(funcs[i])

\* C9 as stated: New given a non-callable candidate returns the error and
\* no pipe; Add given one returns the error and leaves the sequence as it
\* was; every element of the sequence is callable.
C9_NonCallableRejected ==
  [][/\ C9_State'
     /\ \A p \in Procs :
          pc[p] = "idle" /\ pc'[p] = "idle" /\ result'[p].op = "Add"
          /\ opsDone'[p] # opsDone[p] => funcs' = funcs]_vars

\* What Execute(a...) returns on the sequence fs, computed in one go from
\* stage i with current values cur.
RECURSIVE RunFrom(_, _, _, _)
RunFrom(fs, a, i, cur) ==
  IF i > Len(fs) THEN ReturnOk(cur, Len(fs) = 0 /\ Len(a) = 0)
  ELSE LET sel == SelectArgs(fs[i], cur)
       IN IF sel.kind = "arity" THEN ReturnErr("arity", ErrArity, i, << >>)
          ELSE IF sel.kind = "argtype"
          THEN ReturnErr("argtype", ErrArgType, i, << >>)
          ELSE IF CallPanics(fs[i], sel.in) THEN Panicked("Execute", i)
          ELSE LET st == StoreOutputs(Call(fs[i], sel.in), 1, << >>)
               IN IF st.failed THEN ReturnErr("stage", st.err, i, st.outputs)
                  ELSE RunFrom(fs, a, i + 1, st.outputs)

\* C10: the step on which an Execute returns an error leaves the mutex free
\* and the sequence as it was; and what any Execute returns is decided by
\* the sequence and its arguments alone, whatever was called before.
C10_ReusableAfterFailure ==
  [][\A p \in Procs :
       InExecute(p) /\ pc'[p] = "idle" =>
          /\ result'[p].kind \in FailKinds => mux' = NoOne /\ funcs' = funcs
          /\ [result'[p] EXCEPT !.prev = "none"]
               = RunFrom(funcs, args[p], 1, args[p])]_vars

\* An Execute that succeeded right after an Execute of the same goroutine
\* had returned an error.
C10_Witness ==
  \E p \in Procs :
    /\ Done(p) /\ result[p].kind = "ok" /\ Len(calls[p]) >= 1
    /\ result[p].prev \in FailKinds

\* C11: when every stage of the sequence was invoked and the last one came
\* back with no non-nil error, Execute returns a nil error and exactly that
\* stage's results, one entry per declared result slot, in declared order.
C11_SuccessfulResult ==
  \A p \in Procs :
    (/\ Done(p)
     /\ Len(calls[p]) >= 1 /\ Len(calls[p]) = Len(rng[p])
     /\ ErrSlots(calls[p][Len(calls[p])]) = {}) =>
       LET c == calls[p][Len(calls[p])]
       IN /\ result[p].kind = "ok" /\ result[p].err = Nil
          /\ ~result[p].outNil
          /\ Len(result[p].out) = Len(Sig(c.fn).out)
          /\ result[p].out = Returned(c)

\* A successful run whose last stage has an error slot, returned as a nil
\* entry next to the other result.
C11_Witness ==
  \E p \in Procs :
    /\ Done(p) /\ result[p].kind = "ok"
    /\ Len(calls[p]) >= 1
    /\ Len(result[p].out) >= 2
    /\ \E k \in 1..Len(result[p].out) : result[p].out[k] = Nil

\* C12: Execute on a pipe with no stages returns its arguments, same values
\* in the same order, and a nil error.
C12_EmptyPipeline ==
  \A p \in Procs :
    Done(p) /\ Len(rng[p]) = 0 =>
       /\ result[p].kind = "ok" /\ result[p].err = Nil
       /\ result[p].out = args[p]

\* An Execute with several arguments came back from an empty pipe.
C12_Witness ==
  \E p \in Procs :
    /\ Done(p) /\ funcs = << >> /\ Len(rng[p]) = 0
    /\ Len(args[p]) >= 2 /\ result[p].out = args[p]

\* The results of invocation c without the nil results of type error.
RECURSIVE DropNilErr(_, _, _)
DropNilErr(c, k, acc) ==
  IF k > Len(Sig(c.fn).out) THEN acc
  ELSE IF TypeName(Sig(c.fn).out[k]) = "error" /\ Returned(c)[k] = Nil
       THEN DropNilErr(c, k + 1, acc)
       ELSE DropNilErr(c, k + 1, Append(acc, Returned(c)[k]))
\* The loop of p is between two stages (the last invoked one has returned).
BetweenStages(p) ==
  pc[p] = "Execute:loop" /\ idx[p] > 1 /\ Len(calls[p]) = idx[p] - 1

\* C13 as stated: after a stage returned without failure the current values
\* are its results without its nil error slot.
C13_FrameWithoutNilError ==
  \A p \in Procs :
    BetweenStages(p) =>
       inputs[p] = DropNilErr(calls[p][Len(calls[p])], 1, << >>)

\* C13 amended: after a stage returned without failure the current values
\* are all of its results, the nil error slot included, one per declared
\* result slot, and nothing else.
C13_FrameIsAllResults ==
  \A p \in Procs :
    BetweenStages(p) =>
       LET c == calls[p][Len(calls[p])]
       IN /\ inputs[p] = Returned(c)
          /\ Len(inputs[p]) = Len(Sig(c.fn).out)

\* The frame after a stage with an error slot holds the nil error, and the
\* frame before that stage was longer than what the stage took.
C13_Witness ==
  \E p \in Procs :
    /\ BetweenStages(p)
    /\ \E k \in 1..Len(inputs[p]) : inputs[p][k] = Nil
    /\ Len(calls[p][Len(calls[p])].cur) > Len(calls[p][Len(calls[p])].in)

\* The current values with which the run of p reached position n.
FrameAt(p, n) == IF n = 1 THEN args[p] ELSE Returned(calls[p][n - 1])
\* The run of p has come back from position n without invoking its stage.
EndedBefore(p, n) ==
  /\ Done(p)
  /\ result[p].at = n /\ n = Len(calls[p]) + 1 /\ n <= Len(rng[p])
NilAmong(frame, m) == \E k \in 1..m : frame[k] = Nil

\* C14 as stated: a stage reached with more current values than parameters
\* and a nil among them (at any position) is not invoked, and the run ends
\* there with the argument-type error.
C14_AnyNilRejected ==
  \A p \in Procs :
    /\ \A n \in 1..Len(calls[p]) :
         LET c == calls[p][n]
         IN ~(Len(c.cur) > NumIn(c.fn) /\ NilAmong(c.cur, Len(c.cur)))
    /\ \A n \in 1..Len(rng[p]) :
         (/\ EndedBefore(p, n)
          /\ Len(FrameAt(p, n)) > NumIn(rng[p][n])
          /\ NilAmong(FrameAt(p, n), Len(FrameAt(p, n)))) =>
            result[p].kind = "argtype" /\ result[p].err = ErrArgType

\* C14 amended: a stage reached with more current values than its N
\* parameters and a nil among the first N of them is not invoked, and the
\* run ends there with the argument-type error, whatever the parameter
\* types; a nil beyond the first N is dropped with the rest of the surplus.
C14_LeadingNilRejected ==
  \A p \in Procs :
    /\ \A n \in 1..Len(calls[p]) :
         LET c == calls[p][n]
         IN ~(Len(c.cur) > NumIn(c.fn) /\ NilAmong(c.cur, NumIn(c.fn)))
    /\ \A n \in 1..Len(rng[p]) :
         (/\ EndedBefore(p, n)
          /\ Len(FrameAt(p, n)) > NumIn(rng[p][n])
          /\ NilAmong(FrameAt(p, n), NumIn(rng[p][n]))) =>
            result[p].kind = "argtype" /\ result[p].err = ErrArgType

\* A surplus with a leading nil was rejected at a stage whose parameter is
\* of the interface type error.
C14_Witness ==
  \E p \in Procs :
    /\ EndedBefore(p, 1) /\ result[p].kind = "argtype"
    /\ Sig(rng[p][1]).in = <<"error">>
    /\ Len(args[p]) > 1 /\ args[p][1] = Nil

\* C15: every step leaves the sequence a prefix of what it becomes, and no
\* step of an Execute call changes it.
C15_AppendOnly ==
  [][/\ IsPrefix(funcs, funcs')
     /\ \A p \in Procs :
          (pc[p] \in {"Execute:Lock", "Execute:loop", "Execute:call"}
           \/ pc'[p] = "Execute:Lock") /\ pc'[p] # pc[p] =>
             funcs' = funcs]_vars

\* The sequence has grown by an Add since New, and an Execute over the grown
\* sequence has then failed.
C15_Witness ==
  \E p \in Procs :
    /\ Done(p) /\ result[p].kind \in FailKinds /\ result[p].prev = "ok"
    /\ Len(funcs) > Len(newRes.cands)
    /\ rng[p] = funcs /\ IsPrefix(newRes.cands, funcs)

\* C18: a stage reached with exactly as many current values as parameters
\* is invoked with those values as they are when each fits its parameter;
\* when one is nil or of another type the run ends there in a panic of the
\* invocation, never with the argument-type error.
C18_ExactCaseUnchecked ==
  \A p \in Procs :
    /\ \A n \in 1..Len(calls[p]) :
         LET c == calls[p][n]
         IN Len(c.cur) = NumIn(c.fn) =>
              /\ c.in = c.cur
              /\ \A k \in 1..Len(c.cur) : Compatible(c.cur[k], Sig(c.fn).in[k])
    /\ \A n \in 1..Len(rng[p]) :
         EndedBefore(p, n) /\ Len(FrameAt(p, n)) = NumIn(rng[p][n]) =>
            /\ result[p].kind = "panic"
            /\ \E k \in 1..NumIn(rng[p][n]) :
                 ~Compatible(FrameAt(p, n)[k], Sig(rng[p][n]).in[k])

\* An Execute given exactly as many arguments as its first stage takes, one
\* of them nil, ended in the panic.
C18_Witness ==
  \E p \in Procs :
    /\ EndedBefore(p, 1) /\ result[p].kind = "panic"
    /\ Len(args[p]) = NumIn(rng[p][1])
    /\ NilAmong(args[p], Len(args[p]))

\* ------------------------------------------------- functions never returning
\* Goroutine p is inside a stage that does not return.
Hung(p) == pc[p] = "Execute:call" /\ LoopFn(p) = "hang"
\* Goroutine q is in p.mux.Lock() of an Add or an Execute it called.
LockWait(q) == pc[q] \in {"Add:Lock", "Execute:Lock"}
\* A step that leaves p where it is, the mutex with p, the sequence as it
\* is, and every other goroutine out of the critical section, those already
\* waiting for the lock still waiting.
StaysStuck(p) ==
  /\ pc'[p] = pc[p] /\ idx'[p] = idx[p] /\ rng'[p] = rng[p]
  /\ opsDone'[p] = opsDone[p] /\ result'[p] = result[p]
  /\ mux' = p
  /\ funcs' = funcs
  /\ \A q \in Procs \ {p} :
       /\ LockWait(q) => pc'[q] = pc[q]
       /\ pc'[q] \notin {"Add:append", "Execute:loop", "Execute:call",
                         "Stage:Lock"}
\* No call comes back in the step.
NoneReturns == \A q \in Procs : opsDone'[q] = opsDone[q]
\* The calls that come back in the step are Adds turned down by the Kind
\* check, which is made before the lock is asked for.
OnlyKindCheckReturns ==
  \A q \in Procs :
    opsDone'[q] # opsDone[q] =>
       /\ pc[q] = "idle"
       /\ result'[q].op = "Add" /\ result'[q].kind \in {"notfunc", "panic"}

InInnerCall(p) ==
  \/ pc[p] = "Execute:call" /\ LoopFn(p) \in {"reenter", "addNotFunc"}
  \/ pc[p] = "Stage:Lock"

C17_RunToCompletion ==
  \A p \in Procs : (pc[p] # "idle") ~> (pc[p] = "idle")

\* Both goroutines have a call behind them; one now waits for the lock in
\* Execute while the other is about to append in Add.
C17_Witness ==
  \E p, q \in Procs :
    /\ pc[p] = "Execute:Lock" /\ pc[q] = "Add:append" /\ mux = q
    /\ opsDone[p] >= 1 /\ opsDone[q] >= 1

====
